---- MODULE Spec2Model ----
(***************************************************************************)
(* Model of godot-core/src/obj/onready.rs: the late-initialization         *)
(* container OnReady<T> and its four-variant InitState<T>.                 *)
(*                                                                         *)
(* An owning object has NumFields OnReady<i32> fields.  Every public       *)
(* method of OnReady is one action.  A panic unwinds out of the method and *)
(* leaves the field as the method had it at that point; the owning object  *)
(* lives on (the engine boundary catches the panic), so later operations   *)
(* see that state.  std::hint::unreachable_unchecked() is undefined        *)
(* behaviour: it is modelled as a choice between the behaviours of the     *)
(* other arms of the same match.                                           *)
(*                                                                         *)
(* The lifecycle driver that runs before the ready() callback calls       *)
(* init_auto on every field in the order of declaration and then starts    *)
(* ready(); an init_auto that panics ends the pass.                        *)
(*                                                                         *)
(* Model of godot-core/src/obj/rtti.rs: the runtime type information       *)
(* ObjectRtti kept with a handle, created by of::<T>() and consulted by    *)
(* check_type::<T>(), in a build with and in a build without               *)
(* debug_assertions.                                                       *)
(***************************************************************************)
EXTENDS Integers, FiniteSets, Sequences, TLC

\* ---------------------------------------------------------------- bounds
NumFields == 2
MaxValue == 1
MaxCount == 2
NumInstanceIds == 3

Fields == 1..NumFields
Values == 0..MaxValue

\* ------------------------------------------------------ initializer model
\* A closure FnOnce() -> T is represented by what a call of it does: it
\* returns a value of T, or it panics.
NoRet == -1
Closure(v) == [returns |-> TRUE, value |-> v]
Panics == [returns |-> FALSE, value |-> NoRet]
Initializers == {Closure(v) : v \in Values} \cup {Panics}

\* -------------------------------------------------------------- InitState
ManualUninitialized == [tag |-> "ManualUninitialized"]
AutoPrepared(f) == [tag |-> "AutoPrepared", initializer |-> f]
AutoInitializing == [tag |-> "AutoInitializing"]
Initialized(v) == [tag |-> "Initialized", value |-> v]

InitState ==
    {ManualUninitialized} \cup {AutoPrepared(f) : f \in Initializers}
      \cup {AutoInitializing} \cup {Initialized(v) : v \in Values}

\* OnReady::new and OnReady::manual
New(f) == AutoPrepared(f)
Manual == ManualUninitialized

IsInitialized(s) == s.tag = "Initialized"

\* --------------------------------------------------------- panic messages
MsgInitOnAuto == "cannot call init() on auto-initialized OnReady objects"
MsgInitTwice == "already initialized; did you call init() more than once?"
MsgAutoTwice == "OnReady object already initialized"
MsgDerefManual == "OnReady manual value uninitialized, did you call init()?"
MsgDerefAuto == "OnReady automatic value uninitialized, is only available in ready()"
MsgDerefMut == "value not yet initialized"
MsgUnreachable == "internal error: entered unreachable code"
MsgInitializer == "panic raised by the initializer closure"

\* ------------------------------------------------------- method outcomes
\* The outcome of one call: the state the field is left in, whether the
\* call returned or panicked, the panic message, the returned value, and
\* how many times the stored initializer was invoked by the call.
NoMsg == "-"

Returns(s, r) == [state |-> s, kind |-> "ok", msg |-> NoMsg, ret |-> r, invoked |-> 0]
Panic(s, m) == [state |-> s, kind |-> "panic", msg |-> m, ret |-> NoRet, invoked |-> 0]

\* The call of the boxed initializer inside init_auto, made while the
\* field holds AutoInitializing.
CallInitializer_DropsResult(f) ==
    \* variant: the produced value is not stored
    IF ~f.returns
    THEN [state |-> AutoInitializing, kind |-> "panic", msg |-> MsgInitializer,
          ret |-> NoRet, invoked |-> 1]
    ELSE [state |-> AutoInitializing, kind |-> "ok", msg |-> NoMsg,
          ret |-> NoRet, invoked |-> 1]

CallInitializer(f) ==
    IF ~f.returns
    THEN [state |-> AutoInitializing, kind |-> "panic", msg |-> MsgInitializer,
          ret |-> NoRet, invoked |-> 1]
    ELSE [state |-> Initialized(f.value), kind |-> "ok", msg |-> NoMsg,
          ret |-> NoRet, invoked |-> 1]

UndefinedInit(s, value) ==
    \* unreachable_unchecked() in init: any other arm of the match
    {Returns(Initialized(value), NoRet), Panic(s, MsgInitOnAuto), Panic(s, MsgInitTwice)}

init_RunsInitializer(s, value) ==
    \* variant: init on an automatic field runs the stored initializer
    CASE s.tag = "ManualUninitialized" -> {Returns(Initialized(value), NoRet)}
      [] s.tag = "AutoPrepared" -> {CallInitializer(s.initializer)}
      [] s.tag = "AutoInitializing" -> UndefinedInit(s, value)
      [] s.tag = "Initialized" -> {Panic(s, MsgInitTwice)}

\* OnReady::init(value): the set of outcomes the call can have.
init(s, value) ==
    CASE s.tag = "ManualUninitialized" -> {Returns(Initialized(value), NoRet)}
      [] s.tag = "AutoPrepared" -> {Panic(s, MsgInitOnAuto)}
      [] s.tag = "AutoInitializing" -> UndefinedInit(s, value)
      [] s.tag = "Initialized" -> {Panic(s, MsgInitTwice)}

UndefinedInitAuto(s) ==
    \* unreachable_unchecked() in init_auto: any other arm of the first
    \* match; the "handled below" arm then takes an initializer out of a
    \* state that holds none and calls it.
    {Returns(s, NoRet), Panic(s, MsgAutoTwice), Panic(s, MsgUnreachable)}
      \cup {Returns(Initialized(v), NoRet) : v \in Values}

init_auto_SkipsInitialized(s) ==
    \* variant: an Initialized field is skipped like a manual one
    CASE s.tag = "ManualUninitialized" -> {Returns(s, NoRet)}
      [] s.tag = "AutoPrepared" -> {CallInitializer(s.initializer)}
      [] s.tag = "AutoInitializing" -> UndefinedInitAuto(s)
      [] s.tag = "Initialized" -> {Returns(s, NoRet)}

init_auto_ReplacesFirst(s) ==
    \* variant: mem::replace runs before the state is looked at
    CASE s.tag = "ManualUninitialized" -> {Returns(s, NoRet)}
      [] s.tag = "AutoPrepared" -> {CallInitializer(s.initializer)}
      [] s.tag = "AutoInitializing" -> UndefinedInitAuto(s)
      [] s.tag = "Initialized" -> {Panic(AutoInitializing, MsgAutoTwice)}

init_auto_PanicsOnManual(s) ==
    \* variant: a manual field is not skipped
    CASE s.tag = "ManualUninitialized" -> {Panic(s, MsgAutoTwice)}
      [] s.tag = "AutoPrepared" -> {CallInitializer(s.initializer)}
      [] s.tag = "AutoInitializing" -> UndefinedInitAuto(s)
      [] s.tag = "Initialized" -> {Panic(s, MsgAutoTwice)}

init_auto_Lazy(s) ==
    \* variant: the initializer is left for the first use of the value
    CASE s.tag = "ManualUninitialized" -> {Returns(s, NoRet)}
      [] s.tag = "AutoPrepared" -> {Returns(s, NoRet)}
      [] s.tag = "AutoInitializing" -> UndefinedInitAuto(s)
      [] s.tag = "Initialized" -> {Panic(s, MsgAutoTwice)}

\* OnReady::init_auto(): the set of outcomes the call can have.
init_auto(s) ==
    CASE s.tag = "ManualUninitialized" -> {Returns(s, NoRet)}
      [] s.tag = "AutoPrepared" -> {CallInitializer(s.initializer)}
      [] s.tag = "AutoInitializing" -> UndefinedInitAuto(s)
      [] s.tag = "Initialized" -> {Panic(s, MsgAutoTwice)}

deref_OneMessage(s) ==
    \* variant: one message for both kinds of uninitialized field
    CASE s.tag = "ManualUninitialized" -> Panic(s, MsgDerefManual)
      [] s.tag = "AutoPrepared" -> Panic(s, MsgDerefManual)
      [] s.tag = "AutoInitializing" -> Panic(s, MsgUnreachable)
      [] s.tag = "Initialized" -> Returns(s, s.value)

deref_Lazy(s) ==
    \* variant: an automatic field is initialized on first use
    CASE s.tag = "ManualUninitialized" -> Panic(s, MsgDerefManual)
      [] s.tag = "AutoPrepared" ->
            IF s.initializer.returns
            THEN [state |-> Initialized(s.initializer.value), kind |-> "ok",
                  msg |-> NoMsg, ret |-> s.initializer.value, invoked |-> 1]
            ELSE Panic(s, MsgDerefAuto)
      [] s.tag = "AutoInitializing" -> Panic(s, MsgUnreachable)
      [] s.tag = "Initialized" -> Returns(s, s.value)

\* Deref::deref
deref(s) ==
    CASE s.tag = "ManualUninitialized" -> Panic(s, MsgDerefManual)
      [] s.tag = "AutoPrepared" -> Panic(s, MsgDerefAuto)
      [] s.tag = "AutoInitializing" -> Panic(s, MsgUnreachable)
      [] s.tag = "Initialized" -> Returns(s, s.value)

deref_mut_OrDefault(s) ==
    \* variant: an uninitialized field yields a default value
    CASE s.tag = "Initialized" -> Returns(s, s.value)
      [] s.tag \in {"ManualUninitialized", "AutoPrepared"} -> Returns(s, 0)
      [] s.tag = "AutoInitializing" -> Panic(s, MsgUnreachable)

\* DerefMut::deref_mut; the returned reference is to the stored value.
deref_mut(s) ==
    CASE s.tag = "Initialized" -> Returns(s, s.value)
      [] s.tag \in {"ManualUninitialized", "AutoPrepared"} -> Panic(s, MsgDerefMut)
      [] s.tag = "AutoInitializing" -> Panic(s, MsgUnreachable)

\* An assignment through the reference deref_mut returned: *field = w.
write(s, w) ==
    LET r == deref_mut(s)
    IN IF r.kind = "ok" THEN Returns(Initialized(w), NoRet) ELSE r

\* Property for i32 (the contained type T): get_property and set_property.
T_get_property(v) == v
T_set_property(v, x) == x

get_property_OrDefault(s) ==
    \* variant: an uninitialized field reports a default property value
    LET r == deref(s)
    IN IF r.kind = "ok" THEN Returns(s, T_get_property(r.ret)) ELSE Returns(s, 0)

\* Property for OnReady<T>
get_property(s) ==
    LET r == deref(s)
    IN IF r.kind = "ok" THEN Returns(s, T_get_property(r.ret)) ELSE r

set_property(s, x) ==
    LET r == deref_mut(s)
    IN IF r.kind = "ok" THEN Returns(Initialized(T_set_property(r.ret, x)), NoRet)
       ELSE r

\* ------------------------------------------------------------- ObjectRtti
InstanceIds == 1..NumInstanceIds

\* The class registry: the classes T::class_name() can name and the class
\* each one extends.
NoClass == "(none)"
Classes == {"Object", "Node", "Node2D", "RefCounted", "Resource"}

Parent(c) ==
    CASE c = "Node" -> "Object"
      [] c = "Node2D" -> "Node"
      [] c = "RefCounted" -> "Object"
      [] c = "Resource" -> "RefCounted"
      [] OTHER -> NoClass

RECURSIVE Inherits(_, _)
Inherits(derived, base) ==
    \/ derived = base
    \/ derived # NoClass /\ Parent(derived) # NoClass /\ Inherits(Parent(derived), base)

\* The outcome of a check: returned with an instance id, or panicked with
\* the two class names of the failed check.
Checked(id) == [kind |-> "ok", ret |-> id, actual |-> NoClass, expected |-> NoClass]
Mismatch(derived, base) ==
    [kind |-> "panic", ret |-> 0, actual |-> derived, expected |-> base]

\* crate::engine::ensure_object_inherits
ensure_object_inherits(derived, base, instance_id) ==
    IF Inherits(derived, base) THEN Checked(instance_id) ELSE Mismatch(derived, base)

\* ObjectRtti::of::<T>(instance_id); class_name exists with debug_assertions only.
of(T, instance_id, dbg) ==
    IF dbg THEN [instance_id |-> instance_id, class_name |-> T]
    ELSE [instance_id |-> instance_id]

check_type_ExactClass(tag, T, dbg) ==
    \* variant: the recorded class must be T itself
    IF dbg /\ tag.class_name # T THEN Mismatch(tag.class_name, T)
    ELSE Checked(tag.instance_id)

check_type_AlwaysChecks(tag, T, dbg) ==
    \* variant: the check is not compiled out without debug_assertions
    LET class_name == IF dbg THEN tag.class_name ELSE NoClass
        e == ensure_object_inherits(class_name, T, tag.instance_id)
    IN IF e.kind = "panic" THEN e ELSE Checked(tag.instance_id)

\* ObjectRtti::check_type::<T>()
check_type(tag, T, dbg) ==
    LET e == IF dbg THEN ensure_object_inherits(tag.class_name, T, tag.instance_id)
             ELSE Checked(tag.instance_id)
    IN IF e.kind = "panic" THEN e ELSE Checked(tag.instance_id)

\* ------------------------------------------------------------------ state
VARIABLES
    field,   \* field[i]: the InitState of the i-th OnReady field
    built,   \* built[i]: the constructor the field was made with
    calls,   \* calls[i]: how many times the stored initializer was invoked
    inits,   \* inits[i]: how many times the field entered Initialized
    last,    \* the last call made and its outcome
    debug_assertions, \* the build: TRUE with debug_assertions, FALSE without
    rtti,    \* the ObjectRtti of the handle
    made,    \* the class and instance id the ObjectRtti was made of
    checked, \* the last check_type call and its outcome
    phase,   \* the position of the lifecycle driver
    cursor,  \* the field the driver's pass calls init_auto on next
    order    \* the fields whose initializer was invoked, in the order of invocation

vars == <<field, built, calls, inits, last, debug_assertions, rtti, made, checked,
          phase, cursor, order>>

lifecycleVars == <<phase, cursor, order>>

rttiVars == <<debug_assertions, rtti, made, checked>>
onReadyVars == <<field, built, calls, inits, last>>

Constructors == {"new", "manual"}

\* The states a constructor can build.
Construct(c) == IF c = "manual" THEN {Manual} ELSE {New(f) : f \in Initializers}

NoCall == [op |-> "none", i |-> 0, arg |-> NoRet, before |-> ManualUninitialized,
           kind |-> "ok", msg |-> NoMsg, ret |-> NoRet, invoked |-> 0]

\* No handle is looked at: the ObjectRtti part of the state is at rest.
NoCheck == [T |-> NoClass, kind |-> "ok", ret |-> 0, actual |-> NoClass, expected |-> NoClass]

NoRtti ==
    /\ debug_assertions = TRUE
    /\ rtti = [instance_id |-> 0]
    /\ made = [T |-> NoClass, instance_id |-> 0]
    /\ checked = NoCheck

\* No lifecycle driver is looked at: methods are called in any order.
NoDriver ==
    /\ phase = "idle"
    /\ cursor = 0
    /\ order = << >>

Init ==
    /\ NoRtti
    /\ NoDriver
    /\ built \in [Fields -> Constructors]
    /\ field \in [Fields -> InitState]
    /\ \A i \in Fields : field[i] \in Construct(built[i])
    /\ calls = [i \in Fields |-> 0]
    /\ inits = [i \in Fields |-> 0]
    /\ last = NoCall

ReadOps == {"deref", "get_property"}
WriteOps == {"deref_mut", "set_property"}

Bump(n, k) == IF n + k > MaxCount THEN MaxCount ELSE n + k

\* One call of method op on field i with argument arg and outcome o.
Call(op, i, arg, o) ==
    /\ field' = [field EXCEPT ![i] = o.state]
    /\ calls' = [calls EXCEPT ![i] = Bump(@, o.invoked)]
    /\ inits' = [inits EXCEPT ![i] =
                    IF IsInitialized(o.state) /\ ~IsInitialized(field[i])
                    THEN Bump(@, 1) ELSE @]
    /\ last' = [op |-> op, i |-> i, arg |-> arg, before |-> field[i],
                kind |-> o.kind, msg |-> o.msg, ret |-> o.ret, invoked |-> o.invoked]
    /\ UNCHANGED built
    /\ UNCHANGED rttiVars

\* A call made by the code of the owning object.
Apply(op, i, arg, o) == Call(op, i, arg, o) /\ UNCHANGED lifecycleVars

DoInit(i, v) == \E o \in init(field[i], v) : Apply("init", i, v, o)

DoInitAuto(i) == \E o \in init_auto(field[i]) : Apply("init_auto", i, NoRet, o)

DoDeref(i) == Apply("deref", i, NoRet, deref(field[i]))

DoWrite(i, w) == Apply("deref_mut", i, w, write(field[i], w))

DoGetProperty(i) == Apply("get_property", i, NoRet, get_property(field[i]))

DoSetProperty(i, x) == Apply("set_property", i, x, set_property(field[i], x))

Next ==
    \/ \E i \in Fields, v \in Values : DoInit(i, v)
    \/ \E i \in Fields : DoInitAuto(i)
    \/ \E i \in Fields : DoDeref(i)
    \/ \E i \in Fields, w \in Values : DoWrite(i, w)
    \/ \E i \in Fields : DoGetProperty(i)
    \/ \E i \in Fields, x \in Values : DoSetProperty(i, x)

Spec == Init /\ [][Next]_vars

TypeOK ==
    /\ field \in [Fields -> InitState]
    /\ built \in [Fields -> Constructors]
    /\ calls \in [Fields -> 0..MaxCount]
    /\ inits \in [Fields -> 0..MaxCount]

\* ---------------------------------------------- ObjectRtti specification
\* No OnReady field is looked at: the object has manual fields only.
NoFields ==
    /\ built = [i \in Fields |-> "manual"]
    /\ field = [i \in Fields |-> Manual]
    /\ calls = [i \in Fields |-> 0]
    /\ inits = [i \in Fields |-> 0]
    /\ last = NoCall

\* A handle has been wrapped: its ObjectRtti was made by of::<T>(id).
InitRtti ==
    /\ NoFields
    /\ NoDriver
    /\ debug_assertions \in BOOLEAN
    /\ made \in [T : Classes, instance_id : InstanceIds]
    /\ rtti = of(made.T, made.instance_id, debug_assertions)
    /\ checked = NoCheck

DoCheckType_Narrows(T) ==
    \* variant: a check that passes records the narrower class
    LET o == check_type(rtti, T, debug_assertions)
    IN /\ checked' = [T |-> T, kind |-> o.kind, ret |-> o.ret,
                      actual |-> o.actual, expected |-> o.expected]
       /\ rtti' = IF o.kind = "ok" /\ debug_assertions
                  THEN [rtti EXCEPT !.class_name = T] ELSE rtti
       /\ UNCHANGED <<debug_assertions, made>>
       /\ UNCHANGED onReadyVars
       /\ UNCHANGED lifecycleVars

DoCheckType(T) ==
    LET o == check_type(rtti, T, debug_assertions)
    IN /\ checked' = [T |-> T, kind |-> o.kind, ret |-> o.ret,
                      actual |-> o.actual, expected |-> o.expected]
       /\ UNCHANGED <<debug_assertions, rtti, made>>
       /\ UNCHANGED onReadyVars
       /\ UNCHANGED lifecycleVars

NextRtti == \E T \in Classes : DoCheckType(T)

SpecRtti == InitRtti /\ [][NextRtti]_vars

\* ------------------------------------------------ lifecycle specification
\* The object has been constructed; the driver's pass is at the first field.
InitLifecycle ==
    /\ NoRtti
    /\ built \in [Fields -> Constructors]
    /\ field \in [Fields -> InitState]
    /\ \A i \in Fields : field[i] \in Construct(built[i])
    /\ calls = [i \in Fields |-> 0]
    /\ inits = [i \in Fields |-> 0]
    /\ last = NoCall
    /\ phase = "before_ready"
    /\ cursor = 1
    /\ order = << >>

\* The pass calls init_auto on the next field; a panic unwinds out of the
\* pass, and ready() is not started.
DriverInitAuto ==
    /\ phase = "before_ready"
    /\ cursor \in Fields
    /\ \E o \in init_auto(field[cursor]) :
          /\ Call("init_auto", cursor, NoRet, o)
          /\ order' = IF o.invoked = 1 THEN Append(order, cursor) ELSE order
          /\ phase' = IF o.kind = "panic" THEN "aborted" ELSE phase
          /\ cursor' = IF o.kind = "panic" THEN cursor ELSE cursor + 1

\* The pass is over: init_auto was called once on every field.
PassDone == phase = "before_ready" /\ cursor = NumFields + 1

\* The driver starts the ready() callback.
StartReady ==
    /\ PassDone
    /\ phase' = "ready"
    /\ UNCHANGED <<cursor, order>>
    /\ UNCHANGED onReadyVars
    /\ UNCHANGED rttiVars

\* The code of the owning object runs in ready() and in later callbacks.
InCallbacks == phase \in {"ready", "aborted"}

NextLifecycle ==
    \/ DriverInitAuto
    \/ StartReady
    \/ InCallbacks /\ \E i \in Fields, v \in Values : DoInit(i, v)
    \/ InCallbacks /\ \E i \in Fields : DoDeref(i)
    \/ InCallbacks /\ \E i \in Fields, w \in Values : DoWrite(i, w)
    \/ InCallbacks /\ \E i \in Fields : DoGetProperty(i)
    \/ InCallbacks /\ \E i \in Fields, x \in Values : DoSetProperty(i, x)

SpecLifecycle == InitLifecycle /\ [][NextLifecycle]_vars

\* ================================================================= claims
\* The outcomes a call of op with argument arg can have on a field in state s.
Ops == {"init", "init_auto", "deref", "deref_mut", "get_property", "set_property"}

Outcomes(op, s, arg) ==
    CASE op = "init" -> init(s, arg)
      [] op = "init_auto" -> init_auto(s)
      [] op = "deref" -> {deref(s)}
      [] op = "deref_mut" -> {write(s, arg)}
      [] op = "get_property" -> {get_property(s)}
      [] op = "set_property" -> {set_property(s, arg)}

Callee == field[last.i]
IsCall(op) == last.op = op
NewFields == {i \in Fields : built[i] = "new"}
ManualFields == {i \in Fields : built[i] = "manual"}

\* C1: init_auto on a field as new(f) built it, with f returning a value,
\* returns and leaves the field Initialized, and read access then returns
\* exactly the value f() produced; as long as the initializer of a field
\* built with new() has not been run (no init_auto yet), read access on
\* the field panics.
C1_AutoInitYieldsInitializerResult ==
    /\ (IsCall("init_auto") /\ last.before.tag = "AutoPrepared"
          /\ last.before.initializer.returns) =>
          /\ last.kind = "ok"
          /\ last.invoked = 1
          /\ Callee = Initialized(last.before.initializer.value)
          /\ deref(Callee).kind = "ok"
          /\ deref(Callee).ret = last.before.initializer.value
    /\ \A i \in NewFields :
          calls[i] = 0 => (field[i].tag = "AutoPrepared" /\ deref(field[i]).kind = "panic")
    /\ (IsCall("deref") /\ last.i \in NewFields /\ calls[last.i] = 0) =>
          (last.kind = "panic" /\ last.msg = MsgDerefAuto)

C1_Witness ==
    /\ IsCall("init_auto") /\ last.i \in NewFields /\ last.kind = "ok"
    /\ last.before = New(Closure(MaxValue))
    /\ Callee = Initialized(MaxValue) /\ calls[last.i] = 1

\* C2: init(v) returns if and only if the field was ManualUninitialized, and
\* then the field is Initialized(v); on AutoPrepared and on Initialized it
\* panics.
C2_InitSucceedsIffManualUninitialized ==
    IsCall("init") =>
        /\ (last.kind = "ok") <=> (last.before.tag = "ManualUninitialized")
        /\ last.kind = "ok" => Callee = Initialized(last.arg)
        /\ last.before.tag \in {"AutoPrepared", "Initialized"} => last.kind = "panic"

\* C3: init(v) on a field built with new(f) whose initializer has not been
\* invoked panics, and no call of init ever invokes the stored initializer.
C3_InitOnAutoNeverRunsInitializer ==
    IsCall("init") =>
        /\ last.invoked = 0
        /\ (last.i \in NewFields /\ calls[last.i] = 0) =>
              /\ last.kind = "panic"
              /\ last.msg = MsgInitOnAuto
              /\ last.before.tag = "AutoPrepared"
              /\ Callee = last.before

C3_Witness ==
    /\ IsCall("init") /\ last.i \in NewFields /\ last.kind = "panic"
    /\ last.msg = MsgInitOnAuto /\ calls[last.i] = 0

C5_InitializedNeverReverts ==
    [][\A i \in Fields : IsInitialized(field[i]) => IsInitialized(field'[i])]_vars

C5_Witness ==
    /\ last.kind = "panic" /\ last.before.tag = "Initialized"
    /\ IsInitialized(Callee)

\* C6: between calls, no field is in AutoInitializing, so no public
\* operation begins in that state.
C6_AutoInitializingNeverObserved ==
    \A i \in Fields : field[i].tag # "AutoInitializing"

\* C7: init_auto on a ManualUninitialized field returns, leaves the field
\* ManualUninitialized, and a following init(v) returns with the field
\* Initialized(v) and read access yielding v.
C7_AutoInitSkipsManualUninitialized ==
    (IsCall("init_auto") /\ last.before.tag = "ManualUninitialized") =>
        /\ last.kind = "ok"
        /\ last.invoked = 0
        /\ Callee = ManualUninitialized
        /\ \A v \in Values : \A o \in init(Callee, v) :
              o.kind = "ok" /\ deref(o.state) = Returns(Initialized(v), v)

C7_Witness ==
    /\ IsCall("init_auto") /\ last.before.tag = "ManualUninitialized"
    /\ last.kind = "ok" /\ Callee = ManualUninitialized

\* C8: read access and write access return exactly when the field is
\* Initialized, both referring to the stored value, and panic in every
\* other state; a value stored through write access is what read access
\* returns from then on, since only write access changes the stored value.
C8_ReadWriteAccess ==
    /\ \A i \in Fields :
          /\ (deref(field[i]).kind = "ok") <=> IsInitialized(field[i])
          /\ (deref_mut(field[i]).kind = "ok") <=> IsInitialized(field[i])
          /\ deref(field[i]).kind = "panic" <=> deref_mut(field[i]).kind = "panic"
          /\ IsInitialized(field[i]) =>
                /\ deref(field[i]).ret = field[i].value
                /\ deref_mut(field[i]).ret = field[i].value
    /\ last.op \in {"deref", "deref_mut"} =>
          (last.kind = "ok") <=> (last.before.tag = "Initialized")
    /\ (IsCall("deref") /\ last.kind = "ok") => last.ret = last.before.value
    /\ (IsCall("deref_mut") /\ last.kind = "ok") =>
          /\ Callee = Initialized(last.arg)
          /\ deref(Callee).ret = last.arg
    /\ (last.op \in Ops \ WriteOps /\ last.before.tag = "Initialized") =>
          Callee = last.before

C8_Witness ==
    /\ IsCall("deref_mut") /\ last.kind = "ok" /\ last.arg # last.before.value
    /\ deref(Callee).ret = last.arg

\* The misuse a call of op on a field in state s is, as the error taxonomy
\* names it ("none" when the call is no state violation).
Misuse(op, s) ==
    CASE op = "init" /\ s.tag = "Initialized" -> "double-init"
      [] op = "init" /\ s.tag = "AutoPrepared" -> "manual-init-on-automatic"
      [] op = "init_auto" /\ s.tag = "Initialized" -> "double-trigger"
      [] op \in ReadOps \cup WriteOps /\ s.tag = "ManualUninitialized" ->
            "access-before-init-manual"
      [] op \in ReadOps \cup WriteOps /\ s.tag = "AutoPrepared" ->
            "access-before-ready-automatic"
      [] OTHER -> "none"

\* The same, with write access before initialization as one misuse for both
\* kinds of field.
MisuseWriteMerged(op, s) ==
    IF op \in WriteOps /\ s.tag \in {"ManualUninitialized", "AutoPrepared"}
    THEN "write-access-before-initialization"
    ELSE Misuse(op, s)

\* C9 (as claimed): the message of a state-violation panic identifies the
\* misuse: no call that is a different misuse reports the same message,
\* for read access and for write access alike.
C9_MessageIdentifiesMisuse ==
    (last.kind = "panic" /\ Misuse(last.op, last.before) # "none") =>
        \A j \in Fields, op \in Ops, arg \in Values :
            \A o \in Outcomes(op, field[j], arg) :
                (o.kind = "panic"
                   /\ Misuse(op, field[j]) \notin {"none", Misuse(last.op, last.before)})
                => o.msg # last.msg

\* C9 (amended): the message of a state-violation panic identifies the
\* misuse, where read access before initialization is a different misuse on
\* a manual and on an automatic field, and write access before
\* initialization is one misuse, with one message, for both.
C9_MessageIdentifiesMisuseWriteMerged ==
    (last.kind = "panic" /\ MisuseWriteMerged(last.op, last.before) # "none") =>
        /\ last.msg \notin {NoMsg, MsgUnreachable, MsgInitializer}
        /\ \A j \in Fields, op \in Ops, arg \in Values :
              \A o \in Outcomes(op, field[j], arg) :
                  (o.kind = "panic"
                     /\ MisuseWriteMerged(op, field[j])
                           \notin {"none", MisuseWriteMerged(last.op, last.before)})
                  => o.msg # last.msg

C9_Witness ==
    /\ IsCall("deref_mut") /\ last.kind = "panic"
    /\ last.before.tag = "ManualUninitialized" /\ last.msg = MsgDerefMut
    /\ \E j \in Fields : field[j].tag = "AutoPrepared"

\* C10: get_property on an Initialized field returns what T's get_property
\* returns for the stored value and leaves the field as it was;
\* set_property on an Initialized field leaves it holding what T's
\* set_property makes of the stored value; on a field that is not
\* Initialized both panic and leave the field as it was.
C10_MetadataPassThrough ==
    /\ IsCall("get_property") =>
          /\ Callee = last.before
          /\ IF last.before.tag = "Initialized"
             THEN last.kind = "ok" /\ last.ret = T_get_property(last.before.value)
             ELSE last.kind = "panic"
    /\ IsCall("set_property") =>
          IF last.before.tag = "Initialized"
          THEN /\ last.kind = "ok"
               /\ Callee = Initialized(T_set_property(last.before.value, last.arg))
          ELSE last.kind = "panic" /\ Callee = last.before

C10_Witness ==
    /\ IsCall("get_property") /\ last.kind = "ok" /\ last.ret = MaxValue
    /\ \E j \in Fields : j # last.i /\ field[j].tag # "Initialized"

\* C11: with debug_assertions, check_type::<T>() on the ObjectRtti made by
\* of::<A>(id) returns id when A is T or inherits T and panics when it does
\* not; in either build, whenever check_type returns it returns the id
\* given to of.
C11_CheckTypeAcceptsSubtypes ==
    checked.T # NoClass =>
        /\ debug_assertions =>
              /\ Inherits(made.T, checked.T) =>
                    (checked.kind = "ok" /\ checked.ret = made.instance_id)
              /\ ~Inherits(made.T, checked.T) =>
                    /\ checked.kind = "panic"
                    /\ checked.actual = made.T /\ checked.expected = checked.T
        /\ checked.kind = "ok" => checked.ret = made.instance_id

C11_Witness ==
    /\ debug_assertions /\ checked.kind = "ok"
    /\ made.T = "Node2D" /\ checked.T = "Object"
    /\ checked.ret = made.instance_id /\ made.instance_id = NumInstanceIds

\* C12: without debug_assertions check_type::<T>() never panics and returns
\* the stored instance id for every T; and whenever check_type returns with
\* debug_assertions, it returns the id that the ObjectRtti made of the same
\* class and id without debug_assertions returns.
C12_ReturnedIdBuildIndependent ==
    checked.T # NoClass =>
        /\ ~debug_assertions =>
              (checked.kind = "ok" /\ checked.ret = rtti.instance_id
                 /\ checked.ret = made.instance_id)
        /\ (debug_assertions /\ checked.kind = "ok") =>
              checked.ret =
                 check_type(of(made.T, made.instance_id, FALSE), checked.T, FALSE).ret
        /\ \A T \in Classes :
              check_type(of(made.T, made.instance_id, FALSE), T, FALSE)
                 = Checked(made.instance_id)

C12_Witness ==
    /\ ~debug_assertions /\ checked.kind = "ok"
    /\ ~Inherits(made.T, checked.T) /\ checked.ret = made.instance_id

\* C17: check_type calls, returning or panicking, leave the ObjectRtti as
\* of made it (instance id and, with debug_assertions, class name), and the
\* check made last, made again, has the outcome it had.
C17_RttiImmutable ==
    /\ rtti = of(made.T, made.instance_id, debug_assertions)
    /\ checked.T # NoClass =>
          LET again == check_type(rtti, checked.T, debug_assertions)
          IN /\ again.kind = checked.kind /\ again.ret = checked.ret
             /\ again.actual = checked.actual /\ again.expected = checked.expected

C17_Witness ==
    /\ checked.kind = "panic" /\ checked.actual = "Node" /\ checked.expected = "Node2D"
    /\ rtti = of("Node", made.instance_id, TRUE)

\* C13: when the driver's pass has called init_auto once on every field in
\* the order of declaration and ready() starts, every field built with
\* new() is Initialized, so that read access in ready() returns; the
\* initializers were invoked in the order of declaration, each once; and
\* every field built with manual() is still ManualUninitialized.
C13_ReadyFindsAutoFieldsInitialized ==
    /\ PassDone =>
          /\ \A i \in NewFields :
                IsInitialized(field[i]) /\ deref(field[i]).kind = "ok" /\ calls[i] = 1
          /\ \A i \in ManualFields : field[i] = ManualUninitialized /\ calls[i] = 0
          /\ Len(order) = Cardinality(NewFields)
          /\ \A k \in 1..Len(order) : order[k] \in NewFields
          /\ \A k, l \in 1..Len(order) : k < l => order[k] < order[l]
    /\ phase = "ready" =>
          /\ \A i \in NewFields : IsInitialized(field[i])
          /\ (last.op \in ReadOps /\ last.i \in NewFields) => last.kind = "ok"

C13_Witness ==
    /\ phase = "ready" /\ IsCall("deref") /\ last.kind = "ok"
    /\ NewFields = Fields /\ order = [k \in Fields |-> k]

\* The state changes the design allows.
AllowedEdges ==
    {<<"ManualUninitialized", "Initialized">>, <<"AutoPrepared", "AutoInitializing">>,
     <<"AutoPrepared", "Initialized">>, <<"AutoInitializing", "Initialized">>}

\* C14: a field built with manual() is only ever ManualUninitialized or
\* Initialized and becomes Initialized only by init, with the value given
\* to init; a field built with new() is only ever AutoPrepared,
\* AutoInitializing or Initialized and becomes Initialized only by
\* init_auto; every change of variant is an allowed edge.
C14_ModesNeverConvert ==
    /\ \A i \in ManualFields : field[i].tag \in {"ManualUninitialized", "Initialized"}
    /\ \A i \in NewFields :
          field[i].tag \in {"AutoPrepared", "AutoInitializing", "Initialized"}
    /\ (last.op \in Ops /\ Callee.tag # last.before.tag) =>
          <<last.before.tag, Callee.tag>> \in AllowedEdges
    /\ (last.op \in Ops /\ IsInitialized(Callee) /\ ~IsInitialized(last.before)) =>
          /\ last.i \in ManualFields =>
                (last.op = "init" /\ Callee = Initialized(last.arg))
          /\ last.i \in NewFields => last.op = "init_auto"

\* C15 (as claimed): init_auto on a field built with manual() returns and
\* leaves the field as it was, whether or not init was called on it before.
C15_AutoInitSkipsManualFields ==
    (IsCall("init_auto") /\ last.i \in ManualFields) =>
        (last.kind = "ok" /\ Callee = last.before)

\* C15 (amended): init_auto on a field built with manual() leaves the field
\* as it was and runs no initializer; it returns as long as init has not
\* been called on the field, and panics ("already initialized") once init
\* has been called.
C15_AutoInitLeavesManualFields ==
    (IsCall("init_auto") /\ last.i \in ManualFields) =>
        /\ Callee = last.before
        /\ last.invoked = 0
        /\ last.before = ManualUninitialized => last.kind = "ok"
        /\ IsInitialized(last.before) =>
              (last.kind = "panic" /\ last.msg = MsgAutoTwice)
        /\ last.before.tag \in {"ManualUninitialized", "Initialized"}

C15_Witness ==
    /\ IsCall("init_auto") /\ last.i \in ManualFields /\ last.kind = "panic"
    /\ last.before = Initialized(MaxValue) /\ Callee = last.before

\* C16: a call that fails its check of the state (no initializer is run)
\* leaves the field as it was; read or write access on a field that is not
\* Initialized panics, does not initialize it and runs no initializer; init
\* on AutoPrepared leaves AutoPrepared, and init_auto then still returns
\* with the field Initialized to the value f() produces; init or init_auto
\* on Initialized panic and leave the stored value.
C16_FailedCallLeavesField ==
    /\ (last.kind = "panic" /\ last.invoked = 0) => Callee = last.before
    /\ (last.op \in ReadOps \cup WriteOps /\ ~IsInitialized(last.before)) =>
          /\ last.kind = "panic"
          /\ last.invoked = 0
          /\ Callee = last.before
    /\ (IsCall("init") /\ last.before.tag = "AutoPrepared") =>
          /\ last.kind = "panic"
          /\ Callee = last.before
          /\ calls[last.i] = 0
          /\ last.before.initializer.returns =>
                \A o \in init_auto(Callee) :
                    /\ o.kind = "ok"
                    /\ o.state = Initialized(last.before.initializer.value)
    /\ (last.op \in {"init", "init_auto"} /\ IsInitialized(last.before)) =>
          (last.kind = "panic" /\ Callee = last.before)

C16_Witness ==
    /\ IsCall("init") /\ last.before = New(Closure(MaxValue))
    /\ last.kind = "panic" /\ Callee = last.before

====
